---------------------------- MODULE Spec2Model ----------------------------
(***************************************************************************)
(* A model of tasks/rss_reader.py: rss_parser and the functions it calls   *)
(* (parse_channel, parse_item, format_text_output), with the exception     *)
(* handling of its try statement.                                          *)
(*                                                                         *)
(* Representation of the Python values                                     *)
(*   str            a TLA+ string                                          *)
(*   Optional[str]  PyNone (the empty tuple) or PyStr(s) (a 1-tuple)       *)
(*   list           a sequence                                             *)
(*   dict           a sequence of <<key, value>> pairs in insertion order  *)
(*   Element        a record of its children by tag, each a sequence of    *)
(*                  the children with that tag in document order; a leaf   *)
(*                  element is [text |-> Optional[str]]                    *)
(***************************************************************************)
EXTENDS Integers, Sequences, FiniteSets, TLC

VARIABLES
    xml,        \* argument: the document handed to rss_parser
    limit,      \* argument: PyNone or <<n>>
    json,       \* argument: BOOLEAN
    pc,         \* position in rss_parser
    channel,    \* local: root.find('channel'), PyNone or <<element>>
    data,       \* local: the record built by parse_channel / parse_item
    items,      \* local: the item elements kept after the slice
    exc,        \* the exception in flight or raised to the caller, or PyNone
    output      \* the returned list, <<>> until rss_parser returns

vars == <<xml, limit, json, pc, channel, data, items, exc, output>>

-----------------------------------------------------------------------------
(* Bounds of the model *)

MaxItems == 2

MaxLimit == 2

-----------------------------------------------------------------------------
(* Python values *)

PyNone == <<>>

PyStr(s) == <<s>>

StrOf(v) == v[1]

\* truth value of an Optional[str]: None and '' are falsy
Truthy(v) == v # PyNone /\ StrOf(v) # ""

\* dict
DictHas(d, k) == \E i \in 1..Len(d) : d[i][1] = k

DictGet(d, k) == d[CHOOSE i \in 1..Len(d) : d[i][1] = k][2]

DictSet(d, k, v) ==
    IF DictHas(d, k)
    THEN [i \in 1..Len(d) |-> IF d[i][1] = k THEN <<k, v>> ELSE d[i]]
    ELSE Append(d, <<k, v>>)

\* a variant that tests the key alone, not the value
GetStrKeyOnly(d, k) == DictHas(d, k)

\* data.get(k) used as a condition, for a str value and for a list value
GetStr(d, k) == DictHas(d, k) /\ DictGet(d, k) # ""

GetList(d, k) == DictHas(d, k) /\ DictGet(d, k) # <<>>

\* Element.find / Element.findall
Find(elem, tag) == IF elem[tag] = <<>> THEN PyNone ELSE <<Head(elem[tag])>>

FindAll(elem, tag) == elem[tag]

\* s[:n]
Slice(s, n) ==
    IF n >= 0
    THEN SubSeq(s, 1, IF n < Len(s) THEN n ELSE Len(s))
    ELSE SubSeq(s, 1, IF Len(s) + n > 0 THEN Len(s) + n ELSE 0)

\* str(i) of a non-negative int
Digits == <<"0", "1", "2", "3", "4", "5", "6", "7", "8", "9">>

RECURSIVE IntToStr(_)
IntToStr(n) ==
    IF n < Len(Digits) THEN Digits[n + 1]
    ELSE IntToStr(n \div Len(Digits)) \o Digits[(n % Len(Digits)) + 1]

-----------------------------------------------------------------------------
(* html.unescape, for the character references the documents use *)

Entities == << <<"&amp;", "&">>, <<"&lt;", "<">>, <<"&gt;", ">">> >>

StartsWith(s, p) == Len(s) >= Len(p) /\ SubSeq(s, 1, Len(p)) = p

RECURSIVE unescape(_)
unescape(s) ==
    IF s = "" THEN ""
    ELSE IF \E i \in 1..Len(Entities) : StartsWith(s, Entities[i][1])
    THEN LET i == CHOOSE j \in 1..Len(Entities) : StartsWith(s, Entities[j][1])
         IN Entities[i][2] \o unescape(SubSeq(s, Len(Entities[i][1]) + 1, Len(s)))
    ELSE SubSeq(s, 1, 1) \o unescape(SubSeq(s, 2, Len(s)))

-----------------------------------------------------------------------------
(* parse_channel *)

RequiredFields == <<"title", "link", "description">>

\* optional_fields of the text branch, as <<field, key>> in dict order
TextOptionalFields ==
    << <<"lastBuildDate", "lastBuildDate">>, <<"pubDate", "pubDate">>,
       <<"language", "language">>, <<"managingEditor", "managingEditor">> >>

\* optional_fields of the JSON branch
JsonOptionalFields ==
    << <<"lastBuildDate", "lastBuildDate">>, <<"pubDate", "pubDate">>,
       <<"language", "language">>, <<"managingEditor", "managingEditor">>,
       <<"category", "categories">> >>

\* [cat.text for cat in categories]
CategoryTexts(categories) == [i \in 1..Len(categories) |-> categories[i].text]

\* the loop over the required fields
RECURSIVE ChannelRequired(_, _, _)
ChannelRequired(chan, fields, result) ==
    IF fields = <<>> THEN result
    ELSE LET field == Head(fields)
             elem == Find(chan, field)
         IN ChannelRequired(chan, Tail(fields),
                IF elem # PyNone /\ Truthy(elem[1].text)
                THEN DictSet(result, field, StrOf(elem[1].text))
                ELSE result)

\* the loop over optional_fields when json_output is False
RECURSIVE ChannelOptionalText(_, _, _)
ChannelOptionalText(chan, fields, result) ==
    IF fields = <<>> THEN result
    ELSE LET field == Head(fields)[1]
             key == Head(fields)[2]
             elem == Find(chan, field)
         IN ChannelOptionalText(chan, Tail(fields),
                IF elem # PyNone /\ Truthy(elem[1].text)
                THEN DictSet(result, key, StrOf(elem[1].text))
                ELSE DictSet(result, key, ""))

\* the loop over optional_fields when json_output is True
RECURSIVE ChannelOptionalJson(_, _, _)
ChannelOptionalJson(chan, fields, result) ==
    IF fields = <<>> THEN result
    ELSE LET field == Head(fields)[1]
             key == Head(fields)[2]
         IN ChannelOptionalJson(chan, Tail(fields),
                IF field = "category"
                THEN LET categories == FindAll(chan, field)
                     IN IF categories # <<>>
                        THEN DictSet(result, key, CategoryTexts(categories))
                        ELSE result
                ELSE LET elem == Find(chan, field)
                     IN IF elem # PyNone /\ Truthy(elem[1].text)
                        THEN DictSet(result, key, StrOf(elem[1].text))
                        ELSE result)

parse_channel(chan, json_output) ==
    LET required == ChannelRequired(chan, RequiredFields, <<>>)
        optional ==
            IF ~json_output
            THEN LET r == ChannelOptionalText(chan, TextOptionalFields, required)
                     categories == FindAll(chan, "category")
                 IN DictSet(r, "categories",
                        IF categories # <<>> THEN CategoryTexts(categories) ELSE <<>>)
            ELSE ChannelOptionalJson(chan, JsonOptionalFields, required)
    IN DictSet(optional, "items", <<>>)

-----------------------------------------------------------------------------
(* parse_item *)

ItemFields ==
    << <<"title", "title">>, <<"author", "author">>, <<"pubDate", "pubDate">>,
       <<"link", "link">>, <<"description", "description">> >>

RECURSIVE ItemFieldLoop(_, _, _, _)
ItemFieldLoop(item, fields, json_output, result) ==
    IF fields = <<>> THEN result
    ELSE LET field == Head(fields)[1]
             key == Head(fields)[2]
             elem == Find(item, field)
         IN ItemFieldLoop(item, Tail(fields), json_output,
                IF elem # PyNone /\ Truthy(elem[1].text)
                THEN DictSet(result, key, StrOf(elem[1].text))
                ELSE IF ~json_output
                THEN DictSet(result, key, "")
                ELSE result)

parse_item(item, json_output) ==
    LET result == ItemFieldLoop(item, ItemFields, json_output, <<>>)
        categories == FindAll(item, "category")
    IN IF categories # <<>> \/ ~json_output
       THEN DictSet(result, "categories", CategoryTexts(categories))
       ELSE result

-----------------------------------------------------------------------------
(* format_text_output *)

\* sep.join(list) of a list of str
RECURSIVE JoinStr(_, _)
JoinStr(sep, list) ==
    IF list = <<>> THEN ""
    ELSE IF Len(list) = 1 THEN StrOf(list[1])
    ELSE StrOf(list[1]) \o sep \o JoinStr(sep, Tail(list))

\* sep.join(list): a list entry that is None raises TypeError
Join(sep, list) ==
    IF \E i \in 1..Len(list) : list[i] = PyNone
    THEN LET i == CHOOSE j \in 1..Len(list) :
                       /\ list[j] = PyNone
                       /\ \A k \in 1..(j - 1) : list[k] # PyNone
         IN [exc |-> <<[type |-> "TypeError",
                        msg |-> "sequence item " \o IntToStr(i - 1)
                                \o ": expected str instance, NoneType found"]>>,
             value |-> ""]
    ELSE [exc |-> PyNone, value |-> JoinStr(sep, list)]

\* one "if data.get(key): output.append(label + value)" statement
LineIf(cond, line) == IF cond THEN <<line>> ELSE <<>>

\* the channel block, up to the blank line before the items
ChannelLines(d) ==
    LET cats == IF GetList(d, "categories")
                THEN Join(", ", DictGet(d, "categories"))
                ELSE [exc |-> PyNone, value |-> ""]
    IN [exc |-> cats.exc,
        lines |->
            IF cats.exc # PyNone THEN <<>>
            ELSE LineIf(GetStr(d, "title"), "Feed: " \o unescape(DictGet(d, "title")))
              \o LineIf(GetStr(d, "link"), "Link: " \o DictGet(d, "link"))
              \o LineIf(GetStr(d, "lastBuildDate"),
                        "Last Build Date: " \o DictGet(d, "lastBuildDate"))
              \o LineIf(GetStr(d, "pubDate"), "Publish Date: " \o DictGet(d, "pubDate"))
              \o LineIf(GetStr(d, "language"), "Language: " \o DictGet(d, "language"))
              \o LineIf(GetList(d, "categories"), "Categories: " \o cats.value)
              \o LineIf(GetStr(d, "managingEditor"),
                        "Editor: " \o DictGet(d, "managingEditor"))
              \o LineIf(GetStr(d, "description"),
                        "Description: " \o unescape(DictGet(d, "description")))
              \o LineIf(GetList(d, "items"), "")]

\* the body of the loop over data['items'] for one item
ItemLines(item) ==
    LET cats == IF GetList(item, "categories")
                THEN Join(", ", DictGet(item, "categories"))
                ELSE [exc |-> PyNone, value |-> ""]
    IN [exc |-> cats.exc,
        lines |->
            IF cats.exc # PyNone THEN <<>>
            ELSE LineIf(GetStr(item, "title"), "Title: " \o unescape(DictGet(item, "title")))
              \o LineIf(GetStr(item, "author"), "Author: " \o DictGet(item, "author"))
              \o LineIf(GetStr(item, "pubDate"), "Published: " \o DictGet(item, "pubDate"))
              \o LineIf(GetStr(item, "link"), "Link: " \o DictGet(item, "link"))
              \o LineIf(GetList(item, "categories"), "Categories: " \o cats.value)
              \o (IF GetStr(item, "description")
                  THEN <<"", unescape(DictGet(item, "description"))>>
                  ELSE <<>>)
              \o <<"">>]

RECURSIVE ItemsLoop(_, _)
ItemsLoop(its, out) ==
    IF its = <<>> THEN [exc |-> PyNone, output |-> out]
    ELSE LET r == ItemLines(Head(its))
         IN IF r.exc # PyNone THEN [exc |-> r.exc, output |-> out]
            ELSE ItemsLoop(Tail(its), out \o r.lines)

\* [exc |-> the exception raised or PyNone, output |-> the list returned]
format_text_output(d) ==
    LET chan == ChannelLines(d)
    IN IF chan.exc # PyNone THEN [exc |-> chan.exc, output |-> <<>>]
       ELSE LET r == ItemsLoop(DictGet(d, "items"), chan.lines)
            IN IF r.exc # PyNone THEN [exc |-> r.exc, output |-> <<>>] ELSE r

-----------------------------------------------------------------------------
(* json.dumps: the entry it returns is modelled by the JSON document that the *)
(* text denotes, a tree of tagged values; an object keeps the dict's order.   *)
(* The Python type that selects the encoding is fixed by the key: 'items' is  *)
(* a list of dicts, 'categories' a list of Optional[str], the rest are str.   *)

JString(s) == <<"string", s>>

JNull == <<"null">>

JArray(a) == <<"array", a>>

JObject(members) == <<"object", members>>

DumpsOptStr(v) == IF v = PyNone THEN JNull ELSE JString(StrOf(v))

DumpsCategories(list) == JArray([i \in 1..Len(list) |-> DumpsOptStr(list[i])])

\* a variant that adds a member to every item object
DumpsItemExtra(item) ==
    JObject(Append([i \in 1..Len(item) |->
                <<item[i][1],
                  IF item[i][1] = "categories" THEN DumpsCategories(item[i][2])
                  ELSE JString(item[i][2])>>],
            <<"guid", JNull>>))

DumpsItem(item) ==
    JObject([i \in 1..Len(item) |->
        <<item[i][1],
          IF item[i][1] = "categories" THEN DumpsCategories(item[i][2])
          ELSE JString(item[i][2])>>])

Dumps(d) ==
    JObject([i \in 1..Len(d) |->
        <<d[i][1],
          IF d[i][1] = "items"
          THEN JArray([j \in 1..Len(d[i][2]) |-> DumpsItem(d[i][2][j])])
          ELSE IF d[i][1] = "categories" THEN DumpsCategories(d[i][2])
          ELSE JString(d[i][2])>>])

-----------------------------------------------------------------------------
(* Exceptions *)

\* the base class of each exception class
BaseClass(cls) ==
    CASE cls = "ParseError" -> "SyntaxError"
      [] cls = "SyntaxError" -> "Exception"
      [] cls = "ValueError" -> "Exception"
      [] cls = "TypeError" -> "Exception"
      [] cls = "UnhandledException" -> "Exception"
      [] OTHER -> "BaseException"

RECURSIVE IsSubclass(_, _)
IsSubclass(cls, base) ==
    \/ cls = base
    \/ cls # "BaseException" /\ IsSubclass(BaseClass(cls), base)

Exception(type, msg) == <<[type |-> type, msg |-> msg]>>

-----------------------------------------------------------------------------
(* rss_parser *)

\* root = ET.fromstring(xml): a document that is not well formed raises ParseError
Fromstring ==
    /\ pc = "fromstring"
    /\ IF xml.wellFormed
       THEN pc' = "find_channel" /\ exc' = exc
       ELSE pc' = "except" /\ exc' = Exception("ParseError", xml.error)
    /\ UNCHANGED <<xml, limit, json, channel, data, items, output>>

\* channel = root.find('channel'); if channel is None: raise ValueError(...)
FindChannel ==
    /\ pc = "find_channel"
    /\ channel' = Find(xml.root, "channel")
    /\ IF channel' = PyNone
       THEN /\ pc' = "except"
            /\ exc' = Exception("ValueError", "Invalid RSS feed: no channel element found")
       ELSE pc' = "parse_channel" /\ exc' = exc
    /\ UNCHANGED <<xml, limit, json, data, items, output>>

\* the json_output argument the call sites leave at its default
DefaultJsonOutput == FALSE

\* data = parse_channel(channel)
ParseChannel ==
    /\ pc = "parse_channel"
    /\ data' = parse_channel(channel[1], DefaultJsonOutput)
    /\ pc' = "find_items"
    /\ UNCHANGED <<xml, limit, json, channel, items, exc, output>>

\* items = channel.findall('item'); if limit is not None: items = items[:limit]
FindItems ==
    /\ pc = "find_items"
    /\ items' = IF limit # PyNone
                THEN Slice(FindAll(channel[1], "item"), limit[1])
                ELSE FindAll(channel[1], "item")
    /\ pc' = "parse_items"
    /\ UNCHANGED <<xml, limit, json, channel, data, exc, output>>

\* data['items'] = [parse_item(item) for item in items]
ParseItems ==
    /\ pc = "parse_items"
    /\ data' = DictSet(data, "items",
                  [i \in 1..Len(items) |-> parse_item(items[i], DefaultJsonOutput)])
    /\ pc' = "format"
    /\ UNCHANGED <<xml, limit, json, channel, items, exc, output>>

\* return [JSON.dumps(data, ...)] or return format_text_output(data)
Format ==
    /\ pc = "format"
    /\ IF json
       THEN output' = <<Dumps(data)>> /\ pc' = "returned" /\ exc' = exc
       ELSE LET r == format_text_output(data)
            IN IF r.exc # PyNone
               THEN output' = output /\ pc' = "except" /\ exc' = r.exc
               ELSE output' = r.output /\ pc' = "returned" /\ exc' = exc
    /\ UNCHANGED <<xml, limit, json, channel, data, items>>

\* a variant with the clauses in the other order
ExceptClausesSwapped == <<"Exception", "ParseError">>

\* the classes of the except clauses, in the order they are written
ExceptClauses == <<"ParseError", "Exception">>

\* the first except clause that matches an exception of class cls (0: none)
MatchingClause(cls) ==
    IF \E i \in 1..Len(ExceptClauses) : IsSubclass(cls, ExceptClauses[i])
    THEN CHOOSE i \in 1..Len(ExceptClauses) :
            /\ IsSubclass(cls, ExceptClauses[i])
            /\ \A j \in 1..(i - 1) : ~IsSubclass(cls, ExceptClauses[j])
    ELSE 0

\* except ET.ParseError as e: raise ValueError(f"Invalid XML document: {str(e)}")
ExceptParseError ==
    /\ pc = "except"
    /\ ExceptClauses[MatchingClause(exc[1].type)] = "ParseError"
    /\ exc' = Exception("ValueError", "Invalid XML document: " \o exc[1].msg)
    /\ pc' = "raised"
    /\ UNCHANGED <<xml, limit, json, channel, data, items, output>>

\* except Exception as e: raise UnhandledException(f"Unexpected error: {str(e)}")
ExceptException ==
    /\ pc = "except"
    /\ ExceptClauses[MatchingClause(exc[1].type)] = "Exception"
    /\ exc' = Exception("UnhandledException", "Unexpected error: " \o exc[1].msg)
    /\ pc' = "raised"
    /\ UNCHANGED <<xml, limit, json, channel, data, items, output>>

-----------------------------------------------------------------------------
(* The calls of rss_parser the model explores *)

NoElement == <<>>

Leaf(text) == <<[text |-> text]>>

\* a child that is absent, present with no text, or present with the text
ElemOpts(text) == {NoElement, Leaf(PyNone), Leaf(PyStr(text))}

\* a child that is absent or present with the text
ElemOrNot(text) == {NoElement, Leaf(PyStr(text))}

Channels ==
    [title : ElemOpts("A &amp; B"),
     link : ElemOpts("http://x/?a&amp;b"),
     description : ElemOpts("D &lt;i&gt;"),
     lastBuildDate : ElemOrNot("Mon"),
     pubDate : ElemOrNot("Tue"),
     language : ElemOrNot("en"),
     managingEditor : ElemOpts("ed@x"),
     category : {<<>>, Leaf(PyStr("Tech")) \o Leaf(PyStr("News")), Leaf(PyNone)},
     item : {<<>>}]

AllItems ==
    [title : ElemOpts("One &lt; Two"),
     author : ElemOpts("John"),
     pubDate : ElemOrNot("Wed"),
     link : ElemOrNot("http://x/1?a&amp;b"),
     description : ElemOpts("Body &amp; more") \cup {Leaf(PyStr("Title: fake"))},
     category : {<<>>, Leaf(PyStr("Tech")) \o Leaf(PyStr("Web")), Leaf(PyNone)}]

FirstArticle ==
    [title |-> Leaf(PyStr("First Article")), author |-> Leaf(PyStr("John Doe")),
     pubDate |-> Leaf(PyStr("Mon")), link |-> Leaf(PyStr("http://x/1")),
     description |-> Leaf(PyStr("First description.")),
     category |-> Leaf(PyStr("Tech News"))]

SecondArticle ==
    [title |-> Leaf(PyStr("Second Article")), author |-> Leaf(PyStr("Jane Smith")),
     pubDate |-> Leaf(PyStr("Sun")), link |-> Leaf(PyStr("http://x/2")),
     description |-> NoElement,
     category |-> <<>>]

EmptyItem ==
    [title |-> NoElement, author |-> NoElement, pubDate |-> NoElement,
     link |-> NoElement, description |-> NoElement, category |-> <<>>]

BaseItems == {FirstArticle, SecondArticle, EmptyItem}

RECURSIVE SeqsUpTo(_, _)
SeqsUpTo(S, n) ==
    IF n = 0 THEN {<<>>}
    ELSE LET shorter == SeqsUpTo(S, n - 1)
         IN shorter \cup {Append(s, x) : s \in shorter, x \in S}

ItemLists == {<<it>> : it \in AllItems} \cup SeqsUpTo(BaseItems, MaxItems)

\* the channel of the docstring example
SomeChannel ==
    [title |-> Leaf(PyStr("Some RSS Channel")),
     link |-> Leaf(PyStr("https://some.rss.com")),
     description |-> Leaf(PyStr("Some RSS Channel")),
     lastBuildDate |-> NoElement, pubDate |-> NoElement, language |-> NoElement,
     managingEditor |-> NoElement, category |-> <<>>, item |-> <<>>]

EmptyChannel ==
    [title |-> NoElement, link |-> NoElement, description |-> NoElement,
     lastBuildDate |-> NoElement, pubDate |-> NoElement, language |-> NoElement,
     managingEditor |-> NoElement, category |-> <<>>, item |-> <<>>]

BaseChannels == {SomeChannel, EmptyChannel}

\* every channel with no item or with one, and the base channels with every item list
ChannelElements ==
    {[c EXCEPT !.item = its] : c \in Channels, its \in {<<>>, <<FirstArticle>>}}
    \cup {[c EXCEPT !.item = its] : c \in BaseChannels, its \in ItemLists}

ParseErrors == {"no element found: line 1, column 14",
                "mismatched tag: line 1, column 9"}

Documents ==
    {[wellFormed |-> TRUE, error |-> "", root |-> [channel |-> <<c>>]] :
        c \in ChannelElements}
    \cup {[wellFormed |-> TRUE, error |-> "", root |-> [channel |-> <<>>]]}
    \cup {[wellFormed |-> FALSE, error |-> e, root |-> [channel |-> <<>>]] :
        e \in ParseErrors}

Limits == {PyNone} \cup {<<n>> : n \in (0 - 1)..MaxLimit}

Init ==
    /\ xml \in Documents
    /\ limit \in Limits
    /\ json \in BOOLEAN
    /\ pc = "fromstring"
    /\ channel = PyNone
    /\ data = <<>>
    /\ items = <<>>
    /\ exc = PyNone
    /\ output = <<>>

Next ==
    \/ Fromstring
    \/ FindChannel
    \/ ParseChannel
    \/ FindItems
    \/ ParseItems
    \/ Format
    \/ ExceptParseError
    \/ ExceptException

Spec == Init /\ [][Next]_vars

-----------------------------------------------------------------------------
(* What the properties read off the call: the source document, the result *)

Returned == pc = "returned"

Raised == pc = "raised"

HasChannel == xml.wellFormed /\ xml.root.channel # <<>>

Chan == Head(xml.root.channel)

\* the child `tag` of `elem` exists and has text
SrcHasText(elem, tag) ==
    /\ elem[tag] # <<>>
    /\ Head(elem[tag]).text # PyNone
    /\ Head(elem[tag]).text[1] # ""

SrcText(elem, tag) == Head(elem[tag]).text[1]

Min(a, b) == IF a < b THEN a ELSE b

\* text with its character references decoded, for the texts of the documents
Decoded(s) ==
    CASE s = "A &amp; B" -> "A & B"
      [] s = "D &lt;i&gt;" -> "D <i>"
      [] s = "One &lt; Two" -> "One < Two"
      [] s = "Body &amp; more" -> "Body & more"
      [] OTHER -> s

\* the members of a JSON object
JHas(obj, k) == \E i \in 1..Len(obj[2]) : obj[2][i][1] = k

JGet(obj, k) == obj[2][CHOOSE i \in 1..Len(obj[2]) : obj[2][i][1] = k][2]

ChannelOptionalKeys == {"lastBuildDate", "pubDate", "language", "managingEditor"}

ItemOptionalKeys == {"title", "author", "pubDate", "link", "description"}

-----------------------------------------------------------------------------
(* Error outcomes *)

\* C2: a well-formed document whose root has no channel child fails with the
\* invalid-feed error, a ValueError: the call does not return, returns no
\* output, and the exception that reaches the caller is a ValueError and not
\* the catch-all UnhandledException.
C2_InvalidFeedError ==
    (xml.wellFormed /\ xml.root.channel = <<>>) =>
        /\ ~Returned
        /\ output = <<>>
        /\ Raised =>
            /\ IsSubclass(exc[1].type, "ValueError")
            /\ exc[1].type # "UnhandledException"

\* C10: for a well-formed document with a channel element the call never
\* raises, whatever the limit and the mode: no exception is ever in flight.
C10_NeverRaises ==
    HasChannel => (pc \notin {"except", "raised"} /\ exc = PyNone)

\* C3: a document that is not well formed ends in ValueError("Invalid XML
\* document: <parser message>"), whatever the limit and the mode: the call never
\* gets past ET.fromstring, the error is not wrapped into UnhandledException,
\* and nothing is returned.
C3_InvalidXmlError ==
    ~xml.wellFormed =>
        /\ pc \in {"fromstring", "except", "raised"}
        /\ output = <<>>
        /\ Raised =>
            /\ exc[1].type = "ValueError"
            /\ exc[1].msg = "Invalid XML document: " \o xml.error

C3_Witness ==
    /\ ~xml.wellFormed
    /\ Raised
    /\ json
    /\ limit = <<1>>

-----------------------------------------------------------------------------
(* Presence and omission of the optional fields *)

\* C1: when json is True, the key of an optional field is absent from the
\* serialized document iff the source element is absent or has no text
\* (categories: iff there is no category element), for the channel and for
\* every kept item; when json is False the record holds the empty string (the
\* empty list for categories) under that condition.
C1_JsonKeyOmission ==
    /\ (Returned /\ json) =>
        LET doc == output[1]
            objs == JGet(doc, "items")[2]
        IN /\ \A f \in ChannelOptionalKeys : ~JHas(doc, f) <=> ~SrcHasText(Chan, f)
           /\ ~JHas(doc, "categories") <=> (Chan.category = <<>>)
           /\ \A i \in 1..Len(objs) :
                /\ \A f \in ItemOptionalKeys :
                      ~JHas(objs[i], f) <=> ~SrcHasText(items[i], f)
                /\ ~JHas(objs[i], "categories") <=> (items[i].category = <<>>)
    /\ (pc \in {"format", "returned"} /\ ~json) =>
        LET its == DictGet(data, "items")
        IN /\ \A f \in ChannelOptionalKeys :
                ~SrcHasText(Chan, f) => (DictHas(data, f) /\ DictGet(data, f) = "")
           /\ Chan.category = <<>> =>
                (DictHas(data, "categories") /\ DictGet(data, "categories") = <<>>)
           /\ \A i \in 1..Len(its) :
                /\ \A f \in ItemOptionalKeys :
                      ~SrcHasText(items[i], f) =>
                          (DictHas(its[i], f) /\ DictGet(its[i], f) = "")
                /\ items[i].category = <<>> =>
                      (DictHas(its[i], "categories")
                          /\ DictGet(its[i], "categories") = <<>>)

-----------------------------------------------------------------------------
(* The limit *)

Terminated == pc \in {"returned", "raised"}

\* the number of item elements of the document
TotalItems == Len(Chan.item)

\* the number of items the call is to keep
ExpectedKept ==
    IF limit = PyNone THEN TotalItems
    ELSE IF limit[1] >= 0 THEN Min(limit[1], TotalItems)
    ELSE IF TotalItems + limit[1] > 0 THEN TotalItems + limit[1] ELSE 0

\* the first ExpectedKept items of the document, in document order
KeptItems == [i \in 1..ExpectedKept |-> Chan.item[i]]

AfterSlice == pc \in {"parse_items", "format", "returned", "except", "raised"}

AfterParseItems == pc \in {"format", "returned", "except", "raised"}

NonNegativeLimit == limit = PyNone \/ limit[1] >= 0

TitleLines == {i \in 1..Len(output) : StartsWith(output[i], "Title:")}

TitledItems == {i \in 1..Len(items) : SrcHasText(items[i], "title")}

\* the kept items whose description, decoded, reads like a title line
TitleLikeDescriptions ==
    {i \in 1..Len(items) :
        /\ SrcHasText(items[i], "description")
        /\ StartsWith(Decoded(SrcText(items[i], "description")), "Title:")}

\* the kept items, with limit None or non-negative, are the first min(N, T)
\* items of the document, and the record holds one entry for each
KeepsPrefix ==
    (HasChannel /\ NonNegativeLimit) =>
        /\ AfterSlice =>
            /\ Len(items) = (IF limit = PyNone THEN TotalItems
                             ELSE Min(limit[1], TotalItems))
            /\ \A i \in 1..Len(items) : items[i] = Chan.item[i]
        /\ AfterParseItems =>
            LET its == DictGet(data, "items")
            IN /\ Len(its) = Len(items)
               /\ \A i \in 1..Len(its) :
                    \A f \in ItemOptionalKeys :
                        SrcHasText(Chan.item[i], f) =>
                            DictGet(its[i], f) = SrcText(Chan.item[i], f)

\* C4: with limit None or N >= 0 the call keeps exactly the first min(N, T)
\* items in document order (all T with None), and in text mode it returns an
\* output in which the number of lines that start with "Title:" equals the
\* number of kept items with a non-empty title.
C4_LimitTruncation ==
    /\ KeepsPrefix
    /\ (HasChannel /\ NonNegativeLimit /\ ~json /\ Terminated) =>
        /\ Returned
        /\ Cardinality(TitleLines) = Cardinality(TitledItems)

\* What the code does do: the prefix is kept, and an output that is returned
\* has one "Title:" line for each kept item with a title and one for each kept
\* item whose description reads like a title line.
LimitTruncationWhenReturned ==
    /\ KeepsPrefix
    /\ (HasChannel /\ NonNegativeLimit /\ ~json /\ Returned) =>
        Cardinality(TitleLines)
            = Cardinality(TitledItems) + Cardinality(TitleLikeDescriptions)

-----------------------------------------------------------------------------
(* Text output *)

\* ", ".join of the texts of category elements that all have text
RECURSIVE CommaJoined(_)
CommaJoined(cats) ==
    IF Len(cats) = 1 THEN Head(cats).text[1]
    ELSE Head(cats).text[1] \o ", " \o CommaJoined(Tail(cats))

\* the line of a field: the label and the value when the element has text
FieldLine(elem, tag, label, decode) ==
    IF SrcHasText(elem, tag)
    THEN <<label \o (IF decode THEN Decoded(SrcText(elem, tag)) ELSE SrcText(elem, tag))>>
    ELSE <<>>

CategoriesLine(elem) ==
    IF elem.category # <<>> THEN <<"Categories: " \o CommaJoined(elem.category)>> ELSE <<>>

\* the channel block the document calls for
ExpectedChannelBlock ==
    FieldLine(Chan, "title", "Feed: ", TRUE)
    \o FieldLine(Chan, "link", "Link: ", FALSE)
    \o FieldLine(Chan, "lastBuildDate", "Last Build Date: ", FALSE)
    \o FieldLine(Chan, "pubDate", "Publish Date: ", FALSE)
    \o FieldLine(Chan, "language", "Language: ", FALSE)
    \o CategoriesLine(Chan)
    \o FieldLine(Chan, "managingEditor", "Editor: ", FALSE)
    \o FieldLine(Chan, "description", "Description: ", TRUE)

\* the block an item calls for
ExpectedItemBlock(item) ==
    FieldLine(item, "title", "Title: ", TRUE)
    \o FieldLine(item, "author", "Author: ", FALSE)
    \o FieldLine(item, "pubDate", "Published: ", FALSE)
    \o FieldLine(item, "link", "Link: ", FALSE)
    \o CategoriesLine(item)
    \o (IF SrcHasText(item, "description")
        THEN <<"", Decoded(SrcText(item, "description"))>> ELSE <<>>)
    \o <<"">>

RECURSIVE ExpectedItemBlocks(_)
ExpectedItemBlocks(its) ==
    IF its = <<>> THEN <<>>
    ELSE ExpectedItemBlock(Head(its)) \o ExpectedItemBlocks(Tail(its))

\* a call in text mode on a document with a channel has ended / has returned
TextTerminated == HasChannel /\ ~json /\ Terminated

TextReturned == HasChannel /\ ~json /\ Returned

RequiredFieldsHaveText ==
    /\ SrcHasText(Chan, "title")
    /\ SrcHasText(Chan, "link")
    /\ SrcHasText(Chan, "description")

\* the output starts with "Feed: <title decoded>" and "Link: <link as it is>"
FeedAndLinkFirst ==
    /\ Len(output) >= 2
    /\ output[1] = "Feed: " \o Decoded(SrcText(Chan, "title"))
    /\ output[2] = "Link: " \o SrcText(Chan, "link")

\* the output starts with the channel block, followed by a blank line iff an
\* item is kept and by nothing at all when none is
ChannelBlockFirst ==
    LET n == Len(ExpectedChannelBlock)
    IN /\ Len(output) >= n
       /\ SubSeq(output, 1, n) = ExpectedChannelBlock
       /\ ExpectedKept = 0 => Len(output) = n
       /\ ExpectedKept > 0 => (Len(output) > n /\ output[n + 1] = "")

\* after the channel block and its blank line the output is the blocks of the
\* kept items in document order, and its last line is blank
ItemBlocksFollow ==
    LET n == Len(ExpectedChannelBlock) + 1
        blocks == ExpectedItemBlocks(KeptItems)
    IN /\ Len(output) = n + Len(blocks)
       /\ \A j \in 1..Len(blocks) : output[n + j] = blocks[j]
       /\ output[Len(output)] = ""

C6_RequiredFieldRoundTrip ==
    (TextTerminated /\ RequiredFieldsHaveText) => (Returned /\ FeedAndLinkFirst)

\* What the code does do: an output that is returned starts with the two lines.
RequiredFieldRoundTripWhenReturned ==
    (TextReturned /\ RequiredFieldsHaveText) => FeedAndLinkFirst

\* C8: in text mode the channel block is emitted: the lines Feed, Link, Last
\* Build Date, Publish Date, Language, Categories, Editor, Description in that
\* order, each once and exactly when its field is non-empty, before every item
\* line, followed by a blank line iff at least one item is kept.
C8_ChannelBlock == TextTerminated => (Returned /\ ChannelBlockFirst)

\* What the code does do: an output that is returned starts with the block.
ChannelBlockWhenReturned == TextReturned => ChannelBlockFirst

\* C9: in text mode the blocks of the kept items are emitted in document order:
\* Title, Author, Published, Link, Categories for the non-empty fields, then a
\* blank line and the description if it is non-empty, then one blank line, also
\* after the last item and for an item with every field empty; whenever an item
\* is kept the last line of the output is blank.
C9_ItemBlocks ==
    (TextTerminated /\ ExpectedKept > 0) => (Returned /\ ItemBlocksFollow)

\* What the code does do: an output that is returned ends with the blocks.
ItemBlocksWhenReturned == (TextReturned /\ ExpectedKept > 0) => ItemBlocksFollow

-----------------------------------------------------------------------------
(* JSON output *)

ItemKeys == ItemOptionalKeys \cup {"categories"}

\* the keys of a JSON object and of a dict, in order
JKeys(obj) == [k \in 1..Len(obj[2]) |-> obj[2][k][1]]

KeysInOrder(d) == [k \in 1..Len(d) |-> d[k][1]]

\* C7: in JSON mode the call returns exactly one entry, the serialized document.
\* Its title is the channel title; its members are those of the record, in the
\* record's order; its items array holds one object for each kept item, in
\* document order, whose members are those of the item's record, all of them
\* fields of the item: a field with text carries that text, a field without
\* carries no other text, a category element carries its text.
C7_JsonDocument ==
    (HasChannel /\ Terminated /\ json) =>
        /\ Returned
        /\ Len(output) = 1
        /\ LET doc == output[1]
               objs == JGet(doc, "items")[2]
               recs == DictGet(data, "items")
           IN /\ doc[1] = "object"
              /\ JKeys(doc) = KeysInOrder(data)
              /\ SrcHasText(Chan, "title") =>
                    (JHas(doc, "title")
                        /\ JGet(doc, "title") = JString(SrcText(Chan, "title")))
              /\ ~SrcHasText(Chan, "title") => ~JHas(doc, "title")
              /\ JGet(doc, "items")[1] = "array"
              /\ Len(objs) = ExpectedKept
              /\ \A i \in 1..Len(objs) :
                    /\ objs[i][1] = "object"
                    /\ JKeys(objs[i]) = KeysInOrder(recs[i])
                    /\ {JKeys(objs[i])[k] : k \in 1..Len(objs[i][2])} \subseteq ItemKeys
                    /\ \A f \in ItemOptionalKeys :
                          /\ SrcHasText(KeptItems[i], f) =>
                                (JHas(objs[i], f)
                                    /\ JGet(objs[i], f) = JString(SrcText(KeptItems[i], f)))
                          /\ (~SrcHasText(KeptItems[i], f) /\ JHas(objs[i], f)) =>
                                JGet(objs[i], f) = JString("")
                    /\ JHas(objs[i], "categories") =>
                          LET cats == JGet(objs[i], "categories")[2]
                              src == KeptItems[i].category
                          IN /\ Len(cats) = Len(src)
                             /\ \A k \in 1..Len(cats) :
                                   cats[k] = (IF src[k].text = PyNone THEN JNull
                                              ELSE JString(src[k].text[1]))
                    /\ KeptItems[i].category # <<>> => JHas(objs[i], "categories")

C7_Witness ==
    /\ HasChannel
    /\ Returned
    /\ json
    /\ SrcHasText(Chan, "title")
    /\ ExpectedKept = 2
    /\ limit = <<2>>
    /\ KeptItems = <<SecondArticle, FirstArticle>>
    /\ JGet(JGet(output[1], "items")[2][1], "title") = JString("Second Article")
    /\ JGet(JGet(output[1], "items")[2][2], "title") = JString("First Article")

=============================================================================
